---- MODULE Spec2Model ----
(***************************************************************************)
(* A model of the depInject container (src/depinject.h): the registration  *)
(* table, the instance storages with their lifetime flag and cache, the    *)
(* injection context with its component stack, and the recursive           *)
(* resolution Container::get -> InstanceStorage::getInstance ->            *)
(* createInstance -> ConstructorInvoker::invoke, unfolded into steps over  *)
(* an explicit stack of createInstance activations.                        *)
(***************************************************************************)
EXTENDS Integers, Sequences, FiniteSets, Bags, TLC

\* Bounds of the explored workload.
MaxBindings == 3
MaxHandles == 2

---------------------------------------------------------------------------
\* The client types.  A translation unit (a "program") declares some types;
\* a type marked with INJECT has a ConstructorTypedef, the ordered list of
\* the identities its constructor takes (each as a std::shared_ptr).

Programs ==
  {"NestedDependencies", "ChildContainer", "CircularDependency", "Mutual", "Shared"}

TypesOf ==
  [ NestedDependencies |-> {"INest", "SpiderNest", "Spider"},
    ChildContainer     |-> {"INest", "SpiderNest", "Spider"},
    CircularDependency |-> {"Start", "Middle", "End"},
    Mutual             |-> {"Ping", "Pong", "Log"},
    Shared             |-> {"Top", "Left", "Twin", "Base"} ]

ConstructorTypedef ==
  [ SpiderNest |-> << >>,
    Spider     |-> << "INest" >>,
    Start      |-> << "Middle" >>,
    Middle     |-> << "End" >>,
    End        |-> << "Start" >>,
    Ping       |-> << "Log", "Pong" >>,
    Pong       |-> << "Ping" >>,
    Log        |-> << >>,
    Top        |-> << "Left", "Base" >>,
    Left       |-> << "Base" >>,
    Twin       |-> << "Base", "Base" >>,
    Base       |-> << >> ]

\* The bind<TComponent>().to<TImplementation>() statements a program's set-up
\* code may execute (on any of its containers, in any order, repeatedly).
BindStatements ==
  [ NestedDependencies |-> { <<"INest", "SpiderNest">>, <<"Spider", "Spider">> },
    ChildContainer     |-> { <<"INest", "SpiderNest">>, <<"Spider", "Spider">> },
    CircularDependency |-> { <<"Start", "Start">>, <<"Middle", "Middle">>, <<"End", "End">> },
    Mutual             |-> { <<"Ping", "Ping">>, <<"Pong", "Pong">>, <<"Log", "Log">> },
    Shared             |-> { <<"Top", "Top">>, <<"Left", "Left">>,
                             <<"Twin", "Twin">>, <<"Base", "Base">> } ]

\* Public base classes of each type.
BasesOf(T) == IF T = "SpiderNest" THEN {"INest"} ELSE {}

\* Types that declare a static name() function.
StaticName == [ Ping |-> "PingService" ]

\* typeid(T).name(): an implementation-defined label, unique per type.
typeid_name ==
  [ depInject_unspecified_component |-> "N9depInject31depInject_unspecified_componentE",
    INest |-> "5INest", SpiderNest |-> "10SpiderNest", Spider |-> "6Spider",
    Start |-> "5Start", Middle |-> "6Middle", End |-> "3End",
    Ping |-> "4Ping", Pong |-> "4Pong", Log |-> "3Log",
    Top |-> "3Top", Left |-> "4Left", Twin |-> "4Twin", Base |-> "4Base" ]

has_constructor_injection(T) == T \in DOMAIN ConstructorTypedef

has_name(T) == T \in DOMAIN StaticName

is_convertible(TImplementation, TComponent) ==
  TImplementation = TComponent \/ TComponent \in BasesOf(TImplementation)

type_name(T) == IF has_name(T) THEN StaticName[T] ELSE typeid_name[T]

---------------------------------------------------------------------------
\* component_type

component_type(T, customName) == [typeInfo |-> T, customName |-> customName]

make_component_type(T) == component_type(T, "")

name(type) ==
  IF type.customName = "" THEN typeid_name[type.typeInfo] ELSE type.customName

SameType(first, other) == first.typeInfo = other.typeInfo

specified(type) == type.typeInfo # "depInject_unspecified_component"

Unspecified == component_type("depInject_unspecified_component", "Unspecified")

---------------------------------------------------------------------------
\* Containers: a root container and a child constructed with the root as its
\* parent.

Containers == {"root", "child"}

NoContainer == "nullptr"

parentContainer_ == [root |-> NoContainer, child |-> "root"]

\* The containers a program's code binds on and resolves from.
ContainersOf ==
  [ NestedDependencies |-> {"root"},
    ChildContainer     |-> {"root", "child"},
    CircularDependency |-> {"root", "child"},
    Mutual             |-> {"root"},
    Shared             |-> {"root"} ]

Threads == {1, 2}

VARIABLES
  prog,            \* the program (set of client types) in use
  registrations_,  \* [container -> [identity -> Seq(storage)]]
  heap,            \* the live objects: identity -> [impl, args]
  handles,         \* bag of the shared_ptr handles the callers hold
  thread           \* per thread: the top-level get in progress, if any

vars == <<prog, registrations_, heap, handles, thread>>

---------------------------------------------------------------------------
\* InstanceStorage, as held by the retrievers of a registration list.
\* stores and usedTransient observe the storage and steer nothing: how often
\* `mInstance = createInstance(context)` completed (counted up to 2), and
\* whether the transient branch of getInstance ever built an instance.

Retriever(c, T, k) == [container |-> c, type |-> T, index |-> k]

\* The identity (address) of a shared object: the storage whose factory built
\* it and a serial number among that storage's living objects.
Object(r, n) == [by |-> r, n |-> n]

nullptr == Object(Retriever(NoContainer, "", 0), 0)

InstanceStorage(TImplementation) ==
  [ impl         |-> TImplementation,
    mIsSingleton |-> FALSE,
    mInstance    |-> nullptr,
    stores       |-> 0,
    usedTransient |-> FALSE ]

setSingleton(storage, value) ==
  [storage EXCEPT !.mIsSingleton = value]

StorageOf(regs, r) == regs[r.container][r.type][r.index]

AllRetrievers(regs) ==
  UNION { UNION { { Retriever(c, T, k) : k \in 1..Len(regs[c][T]) } :
                  T \in DOMAIN regs[c] } : c \in Containers }

NumBindings(regs) == Cardinality(AllRetrievers(regs))

findInstanceRetrievers_local(regs, c, type) ==
  [k \in 1..Len(regs[c][type.typeInfo]) |-> Retriever(c, type.typeInfo, k)]

\* Container::findInstanceRetrievers: the container's own list for the type,
\* then the parent's, recursively.
RECURSIVE findInstanceRetrievers(_, _, _)
findInstanceRetrievers(regs, c, type) ==
  LET currentRetrievers ==
        [k \in 1..Len(regs[c][type.typeInfo]) |-> Retriever(c, type.typeInfo, k)]
  IN  IF parentContainer_[c] # NoContainer
      THEN currentRetrievers \o findInstanceRetrievers(regs, parentContainer_[c], type)
      ELSE currentRetrievers

---------------------------------------------------------------------------
\* One top-level get in progress on a thread.

NoContext == [container_ |-> NoContainer, componentStack_ |-> << >>]

\* (a context constructed without its requester frame)
InjectionContext_empty(container, requesterComponent) ==
  [container_ |-> container, componentStack_ |-> << >>]

InjectionContext(container, requesterComponent) ==
  [container_ |-> container, componentStack_ |-> << requesterComponent >>]

pushType(context, type) ==
  [context EXCEPT !.componentStack_ = Append(@, type)]

\* (the frame of a finished construction left on the stack)
popType_skipped(context) == context

popType(context) ==
  [context EXCEPT !.componentStack_ = SubSeq(@, 1, Len(@) - 1)]

NoException == [class |-> "none", what |-> ""]

CircularDependencyFound(type) ==
  [class |-> "CircularDependencyFound", what |-> name(type)]

ComponentNotFoundException(type) ==
  [class |-> "ComponentNotFoundException", what |-> name(type)]

Ctl(kind, value, exception) == [kind |-> kind, value |-> value, exception |-> exception]

Idle == Ctl("idle", nullptr, NoException)
Running == Ctl("run", nullptr, NoException)
Return(instance) == Ctl("return", instance, NoException)
Throw(exception) == Ctl("throw", nullptr, exception)

NoRequest == [container |-> NoContainer, type |-> ""]

IdleThread ==
  [ context |-> NoContext, frames |-> << >>, ctl |-> Idle,
    request |-> NoRequest, entry |-> << >> ]

ensureNoCycle_adjacent(stack) ==
  Len(stack) >= 2 /\ SameType(stack[Len(stack) - 1], stack[Len(stack)])

\* ContextGuard::ensureNoCycle: does a frame below the top equal the top?
ensureNoCycle(stack) ==
  \E i \in 1..(Len(stack) - 1) : SameType(stack[i], stack[Len(stack)])

\* The activation of InstanceStorage::createInstance for the storage behind
\* retriever r; cache tells whether getInstance entered it from the singleton
\* branch and will store the result in mInstance.
Frame(r, storage) ==
  [ retriever |-> r,
    impl      |-> storage.impl,
    args      |-> [i \in 1..Len(ConstructorTypedef[storage.impl]) |-> nullptr],
    cur       |-> 0,
    pc        |-> "guard",
    cache     |-> storage.mIsSingleton ]

\* A get call returns `instance` to its caller: to the constructor argument
\* being resolved by the enclosing activation, or to the top-level caller.
Deliver(th, instance) ==
  IF th.frames = << >>
  THEN [th EXCEPT !.ctl = Return(instance)]
  ELSE [th EXCEPT !.frames[Len(th.frames)].args[th.frames[Len(th.frames)].cur] = instance,
                  !.frames[Len(th.frames)].cur = 0,
                  !.ctl = Running]

getInstance_always_creates(storage) == FALSE

\* InstanceStorage::getInstance, the test of the lifetime flag and the cache:
\* is the cached instance returned without construction?
getInstance_cached(storage) ==
  storage.mIsSingleton /\ storage.mInstance # nullptr

FirstRetriever_last(retrievers) == retrievers[Len(retrievers)]

\* The retriever Container::get forwards to: retrievers[0].
FirstRetriever(retrievers) == retrievers[1]

\* (nested arguments looked up from the container that owns the binding under
\* construction instead of the container of the context)
get_from_owner(regs, th, TInterface) ==
  LET type == make_component_type(TInterface)
      owner == IF th.frames = << >> THEN th.context.container_
               ELSE th.frames[Len(th.frames)].retriever.container
      retrievers == findInstanceRetrievers(regs, owner, type)
  IN  IF Len(retrievers) = 0
      THEN [th EXCEPT !.ctl = Throw(ComponentNotFoundException(type))]
      ELSE LET r == FirstRetriever(retrievers)
               storage == StorageOf(regs, r)
           IN  IF getInstance_cached(storage)
               THEN Deliver(th, storage.mInstance)
               ELSE [th EXCEPT
                       !.context = pushType(@, component_type(storage.impl, type_name(storage.impl))),
                       !.frames = Append(@, Frame(r, storage)),
                       !.ctl = Running]

\* Container::get from the lookup (l.232) to the entry of createInstance
\* (l.316, the ContextGuard's push).
get(regs, th, TInterface) ==
  LET type == make_component_type(TInterface)
      retrievers == findInstanceRetrievers(regs, th.context.container_, type)
  IN  IF Len(retrievers) = 0
      THEN [th EXCEPT !.ctl = Throw(ComponentNotFoundException(type))]
      ELSE LET r == FirstRetriever(retrievers)
               storage == StorageOf(regs, r)
           IN  IF getInstance_cached(storage)
               THEN Deliver(th, storage.mInstance)
               ELSE [th EXCEPT
                       !.context = pushType(@, component_type(storage.impl, type_name(storage.impl))),
                       !.frames = Append(@, Frame(r, storage)),
                       !.ctl = Running]

---------------------------------------------------------------------------
\* The heap of shared objects.  An object lives while a shared_ptr refers to
\* it: a storage's mInstance, a caller's handle, a constructor argument held
\* by a living object, or a temporary of a get in progress.

NewId(h, r) ==
  Object(r, CHOOSE i \in 1..(Cardinality(DOMAIN h) + 1) :
              /\ Object(r, i) \notin DOMAIN h
              /\ \A j \in 1..(i - 1) : Object(r, j) \in DOMAIN h)

Range(f) == { f[i] : i \in DOMAIN f }

Roots(regs, hs, ths) ==
  ( { StorageOf(regs, r).mInstance : r \in AllRetrievers(regs) }
    \cup BagToSet(hs)
    \cup UNION { UNION { Range(ths[t].frames[k].args) : k \in DOMAIN ths[t].frames } : t \in Threads }
    \cup { ths[t].ctl.value : t \in Threads } ) \ {nullptr}

RECURSIVE Reach(_, _)
Reach(h, S) ==
  LET S2 == S \cup UNION { Range(h[i].args) : i \in S }
  IN  IF S2 = S THEN S ELSE Reach(h, S2)

Collect(h, regs, hs, ths) ==
  LET live == Reach(h, Roots(regs, hs, ths))
  IN  [i \in live |-> h[i]]

\* use_count() of the object: the shared_ptrs that refer to it (the caches,
\* the callers' handles, the constructor arguments kept by living objects and
\* the temporaries of the gets in progress).
use_count(h, regs, hs, ths, id) ==
  Cardinality({ r \in AllRetrievers(regs) : StorageOf(regs, r).mInstance = id })
  + CopiesIn(id, hs)
  + Cardinality(UNION { { <<o, i>> : i \in { j \in DOMAIN h[o].args : h[o].args[j] = id } } :
                        o \in DOMAIN h })
  + Cardinality(UNION { UNION { { <<t, k, i>> : i \in { j \in DOMAIN ths[t].frames[k].args :
                                                          ths[t].frames[k].args[j] = id } } :
                                k \in DOMAIN ths[t].frames } : t \in Threads })
  + Cardinality({ t \in Threads : ths[t].ctl.value = id })

---------------------------------------------------------------------------
TypeSet == TypesOf[prog]

AllIdle == \A t \in Threads : thread[t].ctl.kind = "idle"

\* Freshly constructed containers, no get in progress.
Constructed ==
  /\ registrations_ = [c \in Containers |-> [T \in TypesOf[prog] |-> << >>]]
  /\ heap = << >>
  /\ handles = EmptyBag
  /\ thread = [t \in Threads |-> IdleThread]

Init == prog \in Programs /\ Constructed

registerType_prepend(regs, c, TComponent, TImplementation) ==
  [regs EXCEPT ![c][TComponent] = << InstanceStorage(TImplementation) >> \o @]

\* container.bind<TComponent>().to<TImplementation>()
registerType(regs, c, TComponent, TImplementation) ==
  [regs EXCEPT ![c][TComponent] = Append(@, InstanceStorage(TImplementation))]

Bind(c, TComponent, TImplementation) ==
  /\ AllIdle
  /\ NumBindings(registrations_) < MaxBindings
  /\ <<TComponent, TImplementation>> \in BindStatements[prog]
  /\ has_constructor_injection(TImplementation)
  /\ is_convertible(TImplementation, TComponent)
  /\ registrations_' = registerType(registrations_, c, TComponent, TImplementation)
  /\ UNCHANGED <<prog, heap, handles, thread>>

\* StorageConfiguration::InSingletonScope on the configuration handle of a
\* registered storage.
InSingletonScope(r) ==
  /\ AllIdle
  /\ ~ StorageOf(registrations_, r).mIsSingleton
  /\ registrations_' =
       [registrations_ EXCEPT ![r.container][r.type][r.index] = setSingleton(@, TRUE)]
  /\ UNCHANGED <<prog, heap, handles, thread>>

\* A top-level container.get<TInterface>() (no context supplied).
GetTop(t, c, TInterface) ==
  /\ thread[t].ctl.kind = "idle"
  /\ BagCardinality(handles) < MaxHandles
  /\ LET th == [ IdleThread EXCEPT
                   !.context = InjectionContext(c, Unspecified),
                   !.request = [container |-> c, type |-> TInterface],
                   !.entry = registrations_ ]
     IN  thread' = [thread EXCEPT ![t] = get(registrations_, th, TInterface)]
  /\ UNCHANGED <<prog, registrations_, heap, handles>>

\* guard.ensureNoCycle() of the top activation.
EnsureNoCycle(t) ==
  LET th == thread[t]
      n == Len(th.frames)
  IN  /\ th.ctl.kind = "run"
      /\ th.frames[n].pc = "guard"
      /\ thread' = [thread EXCEPT ![t] =
           IF ensureNoCycle(th.context.componentStack_)
           THEN [th EXCEPT !.ctl = Throw(CircularDependencyFound(
                                     th.context.componentStack_[Len(th.context.componentStack_)]))]
           ELSE [th EXCEPT !.frames[n].pc = "invoke"]]
      /\ UNCHANGED <<prog, registrations_, heap, handles>>

\* ConstructorInvoker::invoke evaluates container.get<TConstructorArgs>(context)
\* for argument i.  The arguments of one call are evaluated in an order the
\* language leaves unspecified.
ArgChoices(frame) == { i \in DOMAIN frame.args : frame.args[i] = nullptr }

ResolveArg(t, i) ==
  LET th == thread[t]
      n == Len(th.frames)
  IN  /\ th.ctl.kind = "run"
      /\ th.frames[n].pc = "invoke"
      /\ i \in ArgChoices(th.frames[n])
      /\ thread' = [thread EXCEPT ![t] =
           get(registrations_, [th EXCEPT !.frames[n].cur = i],
               ConstructorTypedef[th.frames[n].impl][i])]
      /\ UNCHANGED <<prog, registrations_, heap, handles>>

\* (a check-and-set: only the first writer's instance is kept)
getInstance_store_first(storage, frame, instance) ==
  [storage EXCEPT !.mInstance = IF frame.cache /\ @ = nullptr THEN instance ELSE @,
                  !.stores = IF frame.cache /\ @ < 2 THEN @ + 1 ELSE @,
                  !.usedTransient = @ \/ ~ frame.cache]

getInstance_store_never(storage, frame, instance) ==
  [storage EXCEPT !.stores = IF frame.cache /\ @ < 2 THEN @ + 1 ELSE @,
                  !.usedTransient = @ \/ ~ frame.cache]

getInstance_store_always(storage, frame, instance) ==
  [storage EXCEPT !.mInstance = instance,
                  !.stores = IF frame.cache /\ @ < 2 THEN @ + 1 ELSE @,
                  !.usedTransient = @ \/ ~ frame.cache]

\* What getInstance does with the instance createInstance returned.
getInstance_store(storage, frame, instance) ==
  [storage EXCEPT !.mInstance = IF frame.cache THEN instance ELSE @,
                  !.stores = IF frame.cache /\ @ < 2 THEN @ + 1 ELSE @,
                  !.usedTransient = @ \/ ~ frame.cache]

\* (one cache for an implementation type, shared by all its bindings)
Construct_per_type(t) ==
  LET th == thread[t]
      n == Len(th.frames)
      frame == th.frames[n]
      r == frame.retriever
      id == NewId(heap, r)
  IN  /\ th.ctl.kind = "run"
      /\ frame.pc = "invoke"
      /\ ArgChoices(frame) = {}
      /\ heap' = (id :> [impl |-> frame.impl, args |-> frame.args]) @@ heap
      /\ registrations_' =
           [c \in DOMAIN registrations_ |->
             [T \in DOMAIN registrations_[c] |->
               [k \in DOMAIN registrations_[c][T] |->
                 IF registrations_[c][T][k].impl = frame.impl
                 THEN getInstance_store(registrations_[c][T][k], frame, id)
                 ELSE registrations_[c][T][k]]]]
      /\ thread' = [thread EXCEPT ![t] =
           Deliver([th EXCEPT !.context = popType(@),
                              !.frames = SubSeq(@, 1, n - 1)], id)]
      /\ UNCHANGED <<prog, handles>>

\* All arguments resolved: std::make_shared<TInstance>(...), the guard's pop,
\* the return through createInstance and getInstance to the caller of get.
Construct(t) ==
  LET th == thread[t]
      n == Len(th.frames)
      frame == th.frames[n]
      r == frame.retriever
      id == NewId(heap, r)
  IN  /\ th.ctl.kind = "run"
      /\ frame.pc = "invoke"
      /\ ArgChoices(frame) = {}
      /\ heap' = (id :> [impl |-> frame.impl, args |-> frame.args]) @@ heap
      /\ registrations_' =
           [registrations_ EXCEPT ![r.container][r.type][r.index] =
              getInstance_store(@, frame, id)]
      /\ thread' = [thread EXCEPT ![t] =
           Deliver([th EXCEPT !.context = popType(@),
                              !.frames = SubSeq(@, 1, n - 1)], id)]
      /\ UNCHANGED <<prog, handles>>

\* (the cache written with the partly built instance when the construction
\* of a singleton fails)
Unwind_caches(t) ==
  LET th == thread[t]
      n == Len(th.frames)
      frame == th.frames[n]
      r == frame.retriever
      id == NewId(heap, r)
      ths == [thread EXCEPT ![t] =
                [th EXCEPT !.context = popType(@), !.frames = SubSeq(@, 1, n - 1)]]
      regs == [registrations_ EXCEPT ![r.container][r.type][r.index].mInstance =
                 IF frame.cache THEN id ELSE @]
  IN  /\ th.ctl.kind = "throw"
      /\ n > 0
      /\ thread' = ths
      /\ registrations_' = regs
      /\ heap' = Collect((id :> [impl |-> frame.impl,
                                 args |-> SelectSeq(frame.args, LAMBDA a : a # nullptr)]) @@ heap,
                         regs, handles, ths)
      /\ UNCHANGED <<prog, handles>>

\* (the pop of the guard skipped when the activation exits by exception)
Unwind_without_pop(t) ==
  LET th == thread[t]
      n == Len(th.frames)
      ths == [thread EXCEPT ![t] = [th EXCEPT !.frames = SubSeq(@, 1, n - 1)]]
  IN  /\ th.ctl.kind = "throw"
      /\ n > 0
      /\ thread' = ths
      /\ heap' = Collect(heap, registrations_, handles, ths)
      /\ UNCHANGED <<prog, registrations_, handles>>

\* (a catch in the activation that hands its caller a null instance)
Unwind_fallback(t) ==
  LET th == thread[t]
      n == Len(th.frames)
      ths == [thread EXCEPT ![t] =
                Deliver([th EXCEPT !.context = popType(@), !.frames = SubSeq(@, 1, n - 1),
                                   !.ctl = Running], nullptr)]
  IN  /\ th.ctl.kind = "throw"
      /\ n > 0
      /\ thread' = ths
      /\ heap' = Collect(heap, registrations_, handles, ths)
      /\ UNCHANGED <<prog, registrations_, handles>>

\* An exception leaves the top activation: ~ContextGuard pops its frame and
\* the activation's temporaries are released.
Unwind(t) ==
  LET th == thread[t]
      n == Len(th.frames)
      ths == [thread EXCEPT ![t] =
                [th EXCEPT !.context = popType(@), !.frames = SubSeq(@, 1, n - 1)]]
  IN  /\ th.ctl.kind = "throw"
      /\ n > 0
      /\ thread' = ths
      /\ heap' = Collect(heap, registrations_, handles, ths)
      /\ UNCHANGED <<prog, registrations_, handles>>

\* The top-level get returns to its caller, which keeps the handle;
\* ~InjectionContext ends the context.
ReturnTop(t) ==
  LET th == thread[t]
  IN  /\ th.ctl.kind = "return"
      /\ th.frames = << >>
      /\ handles' = handles (+) SetToBag({th.ctl.value})
      /\ thread' = [thread EXCEPT ![t] = IdleThread]
      /\ UNCHANGED <<prog, registrations_, heap>>

\* The exception reaches the top-level caller.
ThrowTop(t) ==
  LET th == thread[t]
  IN  /\ th.ctl.kind = "throw"
      /\ th.frames = << >>
      /\ thread' = [thread EXCEPT ![t] = IdleThread]
      /\ UNCHANGED <<prog, registrations_, heap, handles>>

Step(t) ==
  \/ \E c \in ContainersOf[prog], T \in TypeSet : GetTop(t, c, T)
  \/ EnsureNoCycle(t)
  \/ \E i \in 1..2 : ResolveArg(t, i)
  \/ Construct(t)
  \/ Unwind(t)
  \/ ReturnTop(t)
  \/ ThrowTop(t)

Setup ==
  \/ \E c \in ContainersOf[prog], T \in TypeSet, U \in TypeSet : Bind(c, T, U)
  \/ \E r \in AllRetrievers(registrations_) : InSingletonScope(r)

\* The single-threaded use the library is written for.
Next == Setup \/ Step(1)

Spec == Init /\ [][Next]_vars

\* The single-threaded client whose call of get, once begun, keeps running:
\* nothing in the library suspends it.
\* It runs the programs of tests.cpp.
FairPrograms == {"NestedDependencies", "CircularDependency"}

InitFair == prog \in FairPrograms /\ Constructed

SpecFair == InitFair /\ [][Next]_vars /\ WF_vars(Step(1))

\* Two threads that call get on the same containers, with no synchronisation
\* in the library; the set-up code runs while no get is in progress.
RacePrograms == {"NestedDependencies"}

InitRace == prog \in RacePrograms /\ Constructed

NextRace == Setup \/ Step(1) \/ Step(2)

SpecRace == InitRace /\ [][NextRace]_vars

---------------------------------------------------------------------------
\* Properties.

Storages == AllRetrievers(registrations_)

Storage(r) == StorageOf(registrations_, r)

\* A binding marked InSingletonScope before its factory built anything.
FreshSingleton(r) == Storage(r).mIsSingleton /\ ~ Storage(r).usedTransient

UseCount(o) == use_count(heap, registrations_, handles, thread, o)

\* C1: a binding marked singleton before its first resolution builds at most
\* one instance; every living instance it built, and so every handle and every
\* constructor argument obtained from it, is the one in its cache; the cache,
\* once written, is neither cleared nor written again.
C1_SingletonLifetime ==
  \A r \in Storages :
    FreshSingleton(r) =>
      /\ Storage(r).stores <= 1
      /\ (Storage(r).stores = 1) <=> (Storage(r).mInstance # nullptr)
      /\ Storage(r).mInstance # nullptr =>
           Storage(r).mInstance \in DOMAIN heap /\ Storage(r).mInstance.by = r
      /\ \A o \in DOMAIN heap : o.by = r => o = Storage(r).mInstance
      /\ \A h \in BagToSet(handles) : h.by = r => h = Storage(r).mInstance

\* Two top-level resolves returned the cached instance of a singleton binding.
C1_Witness ==
  /\ AllIdle
  /\ \E r \in Storages :
       /\ FreshSingleton(r)
       /\ CopiesIn(Storage(r).mInstance, handles) = 2

\* C2: a binding not marked singleton caches nothing, and every living
\* instance it built has exactly one owner (the one requester it was returned
\* to), so no two resolves share an instance.
C2_TransientLifetime ==
  \A r \in Storages :
    ~ Storage(r).mIsSingleton =>
      /\ Storage(r).mInstance = nullptr
      /\ Storage(r).stores = 0
      /\ \A o \in DOMAIN heap : o.by = r => UseCount(o) = 1

\* Two resolves of a transient binding: the callers hold two distinct instances.
C2_Witness ==
  /\ AllIdle
  /\ \E o1 \in BagToSet(handles), o2 \in BagToSet(handles) :
       /\ o1 # o2
       /\ o1.by = o2.by
       /\ ~ Storage(o1.by).mIsSingleton

\* The gets in progress.
Busy == { t \in Threads : thread[t].ctl.kind # "idle" }

Top(t) == thread[t].frames[Len(thread[t].frames)]

AtTopLevel(t) == thread[t].frames = << >>

\* The identity activation k of thread t was requested by: the top-level
\* request, or the constructor argument its caller is resolving.
Requested(t, k) ==
  IF k = 1 THEN thread[t].request.type
  ELSE ConstructorTypedef[thread[t].frames[k - 1].impl][thread[t].frames[k - 1].cur]

Throwing(t, class, what) ==
  /\ thread[t].ctl.kind = "throw"
  /\ thread[t].ctl.exception = [class |-> class, what |-> what]

\* The top of the component stack repeats a type below it.
RepeatsOnStack(stack) ==
  \E i \in 1..(Len(stack) - 1) : stack[i].typeInfo = stack[Len(stack)].typeInfo

\* C3: an activation whose implementation type is already under construction
\* in the same call tree never goes on to resolve its arguments: its cycle
\* check is pending, or it has failed with CircularDependencyFound naming that
\* type; so the stack below the top never holds a type twice.
C3_CyclesRejected ==
  \A t \in Busy :
    \A k \in DOMAIN thread[t].frames :
      LET stack == SubSeq(thread[t].context.componentStack_, 1, k + 1)
          frame == thread[t].frames[k]
      IN  /\ stack[k + 1].typeInfo = frame.impl
          /\ frame.pc = "invoke" => ~ RepeatsOnStack(stack)
          /\ frame.pc = "guard" =>
               /\ k = Len(thread[t].frames)
               /\ RepeatsOnStack(stack) =>
                    \/ thread[t].ctl.kind = "run"
                    \/ Throwing(t, "CircularDependencyFound", type_name(frame.impl))
               /\ ~ RepeatsOnStack(stack) => thread[t].ctl.kind = "run"

\* Start -> Middle -> End -> Start, resolved from the child container: the
\* fourth activation failed its cycle check.
C3_Witness ==
  /\ prog = "CircularDependency"
  /\ thread[1].request = [container |-> "child", type |-> "Start"]
  /\ Len(thread[1].frames) = 4
  /\ Top(1).impl = "Start"
  /\ Throwing(1, "CircularDependencyFound", "5Start")

\* The container and its ancestors.
RECURSIVE Chain(_)
Chain(c) == IF c = NoContainer THEN {} ELSE {c} \cup Chain(parentContainer_[c])

NoBinding(c, T) == \A a \in Chain(c) : registrations_[a][T] = << >>

\* C4: a get in progress has failed with ComponentNotFoundException naming T
\* exactly when it looked T up (as the top-level identity or as the constructor
\* argument an activation is resolving) and neither the container of the call
\* nor any of its ancestors has a binding for T.
C4_ComponentNotFound ==
  \A t \in Busy :
    LET c == thread[t].request.container
    IN  /\ NoBinding(c, thread[t].request.type) <=>
             ( AtTopLevel(t)
               /\ Throwing(t, "ComponentNotFoundException", typeid_name[thread[t].request.type]) )
        /\ \A k \in DOMAIN thread[t].frames :
             thread[t].frames[k].cur # 0 =>
               ( NoBinding(c, Requested(t, k + 1)) <=>
                   ( k = Len(thread[t].frames)
                     /\ Throwing(t, "ComponentNotFoundException",
                                 typeid_name[Requested(t, k + 1)]) ) )
        /\ thread[t].ctl.exception.class = "ComponentNotFoundException" =>
             \/ AtTopLevel(t)
             \/ Top(t).cur # 0

\* child.get<Spider>() found Spider in the parent only, and the nested lookup
\* of INest found nothing in the child or the parent.
C4_Witness ==
  /\ prog = "ChildContainer"
  /\ thread[1].request = [container |-> "child", type |-> "Spider"]
  /\ registrations_["child"]["Spider"] = << >>
  /\ Len(thread[1].frames) = 1
  /\ Top(1).cur = 1
  /\ Throwing(1, "ComponentNotFoundException", "5INest")

\* The first record of the nearest container, from c upwards, that has
\* bindings for T.
RECURSIVE Nearest(_, _, _)
Nearest(regs, c, T) ==
  IF c = NoContainer THEN Retriever(NoContainer, "", 0)
  ELSE IF regs[c][T] # << >> THEN Retriever(c, T, 1)
  ELSE Nearest(regs, parentContainer_[c], T)

\* C5: the storage a top-level resolve of T on c constructs from, and the
\* storage that built the instance it returns, is the first record of c's own
\* list for T if c has one, else the first record of the nearest ancestor's.
C5_LookupOrder ==
  \A t \in Busy :
    LET expected == Nearest(registrations_, thread[t].request.container, thread[t].request.type)
    IN  /\ ~ AtTopLevel(t) =>
             /\ thread[t].frames[1].retriever = expected
             /\ thread[t].frames[1].impl = Storage(expected).impl
        /\ thread[t].ctl.kind = "return" =>
             /\ thread[t].ctl.value.by = expected
             /\ heap[thread[t].ctl.value].impl = Storage(expected).impl

\* The child has two bindings for INest and the root one: child.get<INest>()
\* returns an instance of the child's first, root.get<INest>() one of the root's.
C5_Witness ==
  /\ prog = "ChildContainer"
  /\ Len(registrations_["child"]["INest"]) = 2
  /\ Len(registrations_["root"]["INest"]) = 1
  /\ thread[1].ctl.kind = "return"
  /\ thread[1].request = [container |-> "child", type |-> "INest"]
  /\ thread[1].ctl.value.by = Retriever("child", "INest", 1)
  /\ \E h \in BagToSet(handles) : h.by = Retriever("root", "INest", 1)

\* C6: a step that adds a binding record appends one transient, unpopulated
\* record to one list of one container and changes nothing else; when that
\* list was not empty, every lookup on every container selects the same
\* storage as before.
C6_BindAdditive ==
  [][ NumBindings(registrations_') # NumBindings(registrations_) =>
        /\ \E c \in Containers, T \in TypeSet, U \in TypeSet :
             /\ is_convertible(U, T)
             /\ registrations_' =
                  [registrations_ EXCEPT ![c][T] =
                     Append(@, [ impl |-> U, mIsSingleton |-> FALSE, mInstance |-> nullptr,
                                 stores |-> 0, usedTransient |-> FALSE ])]
             /\ registrations_[c][T] # << >> =>
                  \A c2 \in Containers, T2 \in TypeSet :
                    Nearest(registrations_', c2, T2) = Nearest(registrations_, c2, T2)
        /\ UNCHANGED <<heap, handles, thread>>
    ]_vars

\* A list of two records whose first is a populated singleton and whose
\* second, added later, is an untouched transient record.
C6_Witness ==
  \E c \in Containers, T \in TypeSet :
    /\ Len(registrations_[c][T]) = 2
    /\ registrations_[c][T][1].mInstance # nullptr
    /\ registrations_[c][T][2] = InstanceStorage(registrations_[c][T][2].impl)
    /\ \E h \in BagToSet(handles) : h = registrations_[c][T][1].mInstance

\* Is the instance a constructor argument built by a fresh singleton binding?
FromSingleton(a) == a.by \in Storages /\ FreshSingleton(a.by)

\* C7: the callers' handles to instances of one transient binding are
\* pairwise distinct objects; wherever two of them took a constructor argument
\* from the same singleton binding they hold the same instance, and a handle
\* obtained by resolving that binding directly is that instance too.
C7_MixedLifetimes ==
  \A o1 \in BagToSet(handles) :
    ~ Storage(o1.by).mIsSingleton =>
      /\ CopiesIn(o1, handles) = 1
      /\ \A i \in DOMAIN heap[o1].args :
           LET a == heap[o1].args[i]
           IN  FromSingleton(a) =>
                 /\ \A o2 \in BagToSet(handles) :
                      \A j \in DOMAIN heap[o2].args :
                        heap[o2].args[j].by = a.by => heap[o2].args[j] = a
                 /\ \A d \in BagToSet(handles) : d.by = a.by => d = a

\* Two Spiders of a transient binding that share the SpiderNest of a singleton
\* binding.
C7_Witness ==
  /\ prog = "NestedDependencies"
  /\ AllIdle
  /\ \E o1 \in BagToSet(handles), o2 \in BagToSet(handles) :
       /\ o1 # o2
       /\ o1.by = o2.by
       /\ heap[o1].impl = "Spider"
       /\ ~ Storage(o1.by).mIsSingleton
       /\ FromSingleton(heap[o1].args[1])
       /\ heap[o1].args[1] = heap[o2].args[1]

\* C8: once a get has thrown, every further step of it pops one activation and
\* leaves the exception as it is, until the call ends at the top level without
\* handing out an instance; nothing is constructed or cached on the way.
C8_ErrorPropagation ==
  [][ \A t \in Threads :
        ( thread[t].ctl.kind = "throw" /\ thread'[t] # thread[t] ) =>
          /\ registrations_' = registrations_
          /\ handles' = handles
          /\ DOMAIN heap' \subseteq DOMAIN heap
          /\ IF AtTopLevel(t)
             THEN thread'[t] = IdleThread
             ELSE /\ thread'[t].ctl = thread[t].ctl
                  /\ thread'[t].frames =
                       SubSeq(thread[t].frames, 1, Len(thread[t].frames) - 1)
    ]_vars

\* A ComponentNotFoundException raised by a nested lookup has reached the
\* top-level caller of get<Spider>().
C8_Witness ==
  /\ prog = "NestedDependencies"
  /\ thread[1].request.type = "Spider"
  /\ AtTopLevel(1)
  /\ Throwing(1, "ComponentNotFoundException", "5INest")

FailedCircular(t) ==
  /\ AtTopLevel(t)
  /\ thread[t].ctl.kind = "throw"
  /\ thread[t].ctl.exception.class = "CircularDependencyFound"

SingletonStore(t) ==
  /\ thread[t].ctl.kind = "run"
  /\ ~ AtTopLevel(t)
  /\ Top(t).pc = "invoke"
  /\ Top(t).cache
  /\ Len(thread'[t].frames) < Len(thread[t].frames)

\* C10: with the test of the cache and its write as separate steps, every
\* construction entered while the cache was empty runs to completion and
\* writes its own new instance into the cache, over whatever another thread
\* has written there in between: the last writer's instance is the one kept.
C10_LastWriterWins ==
  [][ \A t \in Threads :
        SingletonStore(t) =>
          LET r == Top(t).retriever
              old == StorageOf(registrations_, r).mInstance
              new == StorageOf(registrations_', r).mInstance
          IN  /\ new \notin DOMAIN heap
              /\ new \in DOMAIN heap'
              /\ new # old
              /\ Len(thread[t].frames) = 1 => thread'[t].ctl = Return(new)
    ]_vars

\* Both threads resolved the same unpopulated singleton binding: each caller
\* holds its own instance, and the cache holds the one written last.
C10_Witness ==
  /\ AllIdle
  /\ \E r \in Storages :
       /\ FreshSingleton(r)
       /\ Storage(r).stores = 2
       /\ BagToSet(handles) = { Object(r, 1), Object(r, 2) }
       /\ Storage(r).mInstance = Object(r, 2)

\* The references the containers keep to object o: the cached-instance slots
\* that hold it.
ContainerRefs(o) ==
  Cardinality({ r \in Storages : Storage(r).mInstance = o })

\* The constructor arguments of living objects that hold object o.
DependentRefs(o) ==
  Cardinality(UNION { { <<d, i>> : i \in { j \in DOMAIN heap[d].args : heap[d].args[j] = o } } :
                      d \in DOMAIN heap })

\* C11: between calls, the containers keep no reference to an instance that
\* is not a binding's cached instance, and such an instance has one owner; the
\* cached instance of a singleton binding is referred to by that one slot
\* only, and its owner count is 1 plus the callers' handles to it plus the
\* dependents constructed with it.
C11_OwnershipCounts ==
  [] ( AllIdle =>
         \A o \in DOMAIN heap :
           IF Storage(o.by).mInstance = o
           THEN /\ Storage(o.by).mIsSingleton
                /\ Storage(o.by).stores >= 1
                /\ ContainerRefs(o) = 1
                /\ UseCount(o) = 1 + CopiesIn(o, handles) + DependentRefs(o)
           ELSE /\ ~ FreshSingleton(o.by)
                /\ ContainerRefs(o) = 0
                /\ UseCount(o) = 1
                /\ CopiesIn(o, handles) + DependentRefs(o) = 1 )

\* TestSimpleResolve__Singleton and TestSimpleResolve: two resolves of a
\* singleton binding leave its instance with count 3; a caller's handle to a
\* transient instance has count 1.
C11_Witness ==
  /\ AllIdle
  /\ \E r \in Storages :
       /\ FreshSingleton(r)
       /\ CopiesIn(Storage(r).mInstance, handles) = 2
       /\ UseCount(Storage(r).mInstance) = 3

\* The component stack that holds the root frame and one frame for each
\* construction in progress.
StackOf(frames) ==
  << Unspecified >> \o
  [k \in 1..Len(frames) |-> component_type(frames[k].impl, type_name(frames[k].impl))]

\* C12: in every step of a call a construction begins, pushing its one frame
\* with its cycle check still to come, or ends (by return or by exception),
\* popping exactly the top frame, or the stack is left alone; the frames of
\* the enclosing constructions are never touched, so the stack after a
\* construction, successful or failed, is the stack before it.
C12_StackBalance ==
  [][ \A t \in Threads :
        ( thread[t].ctl.kind # "idle" /\ thread'[t].ctl.kind # "idle" ) =>
          LET f == thread[t].frames
              g == thread'[t].frames
              stack == thread[t].context.componentStack_
              after == thread'[t].context.componentStack_
          IN  /\ stack = StackOf(f)
              /\ after = StackOf(g)
              /\ \/ /\ Len(g) = Len(f) + 1
                    /\ after = Append(stack, after[Len(after)])
                    /\ g[Len(g)].pc = "guard"
                    /\ thread'[t].ctl.kind = "run"
                 \/ /\ Len(g) = Len(f) - 1
                    /\ after = SubSeq(stack, 1, Len(stack) - 1)
                 \/ /\ Len(g) = Len(f)
                    /\ after = stack
              /\ \A k \in 1..(Len(f) - 1) :
                   k \in DOMAIN g => g[k].retriever = f[k].retriever
    ]_vars

\* Start -> Middle -> End -> Start failed its cycle check; the activations of
\* Start (the repeated one) and End have exited and two frames remain.
C12_Witness ==
  /\ prog = "CircularDependency"
  /\ Throwing(1, "CircularDependencyFound", "5Start")
  /\ Len(thread[1].frames) = 2
  /\ thread[1].context.componentStack_ =
       << Unspecified, component_type("Start", "5Start"), component_type("Middle", "6Middle") >>

\* C13: a thread outside get has no context; a get in progress has a context
\* of its own, for the container it was called on, whose stack has the
\* unspecified root frame at the bottom and nowhere else, followed by the
\* frames of this call's own constructions only: one frame at the start,
\* nothing of an earlier or a concurrent call.
C13_ContextScoping ==
  \A t \in Threads :
    LET stack == thread[t].context.componentStack_
    IN  IF thread[t].ctl.kind = "idle"
        THEN thread[t].context = NoContext
        ELSE /\ thread[t].context.container_ = thread[t].request.container
             /\ Len(stack) >= 1
             /\ stack[1] = Unspecified
             /\ ~ specified(stack[1])
             /\ \A i \in 2..Len(stack) : specified(stack[i])
             /\ Len(stack) = Len(thread[t].frames) + 1
             /\ \A k \in DOMAIN thread[t].frames :
                  stack[k + 1].typeInfo = thread[t].frames[k].impl

\* Two calls at once, each with its own stack: thread 1 constructs a Spider
\* and is resolving its INest, thread 2 has just started constructing a Spider.
C13_Witness ==
  /\ thread[1].context.componentStack_ =
       << Unspecified, component_type("Spider", "6Spider"),
          component_type("SpiderNest", "10SpiderNest") >>
  /\ thread[2].context.componentStack_ =
       << Unspecified, component_type("Spider", "6Spider") >>
  /\ BagCardinality(handles) >= 1

\* C14: every construction of a call, nested ones included, is for the
\* binding found by a lookup that starts at the container the top-level get
\* was called on (the container of the call's one context), whichever
\* container owns the binding being constructed; every argument already
\* injected was built by, or is the cached instance of, that binding.
C14_InitiatingContainer ==
  \A t \in Busy :
    LET c == thread[t].request.container
    IN  /\ thread[t].context.container_ = c
        /\ \A k \in DOMAIN thread[t].frames :
             LET frame == thread[t].frames[k]
             IN  /\ frame.retriever = Nearest(registrations_, c, Requested(t, k))
                 /\ \A i \in DOMAIN frame.args :
                      frame.args[i] # nullptr =>
                        frame.args[i].by =
                          Nearest(registrations_, c, ConstructorTypedef[frame.impl][i])

\* child.get<Spider>() selected the Spider binding of the parent; its INest
\* was found in the child, which shadows the parent's INest binding.
C14_Witness ==
  /\ prog = "ChildContainer"
  /\ thread[1].request = [container |-> "child", type |-> "Spider"]
  /\ Len(thread[1].frames) = 1
  /\ Top(1).retriever = Retriever("root", "Spider", 1)
  /\ registrations_["root"]["INest"] # << >>
  /\ Top(1).args[1] # nullptr
  /\ Top(1).args[1].by = Retriever("child", "INest", 1)

\* C15 as claimed: the arguments of a construction are resolved in
\* declaration order: while an argument is being resolved or has been
\* resolved, every argument declared before it has been resolved.
C15_DeclarationOrder ==
  \A t \in Busy :
    \A k \in DOMAIN thread[t].frames :
      LET frame == thread[t].frames[k]
      IN  \A i \in DOMAIN frame.args, j \in DOMAIN frame.args :
            ( i < j /\ ( frame.args[j] # nullptr \/ frame.cur = j ) ) =>
              frame.args[i] # nullptr

\* The implementation types that have a binding.
ImplementationTypes == { Storage(r).impl : r \in Storages }

\* The call of thread t has ended with one of the three outcomes.
Outcome(t) ==
  /\ AtTopLevel(t)
  /\ \/ /\ thread[t].ctl.kind = "return"
        /\ thread[t].ctl.value \in DOMAIN heap
        /\ thread[t].ctl.exception = NoException
     \/ /\ thread[t].ctl.kind = "throw"
        /\ thread[t].ctl.value = nullptr
        /\ thread[t].ctl.exception.class \in
             {"ComponentNotFoundException", "CircularDependencyFound"}

\* C16: during a call the stack below its top frame holds no identity twice
\* and the stack is at most the root frame, one frame for each implementation
\* type that has a binding, and one more; and every call that has begun ends
\* with an instance, a ComponentNotFoundException or a CircularDependencyFound.
C16_Termination ==
  /\ [] ( \A t \in Busy :
            LET stack == thread[t].context.componentStack_
            IN  /\ \A i \in 1..(Len(stack) - 1), j \in 1..(Len(stack) - 1) :
                     i # j => ~ SameType(stack[i], stack[j])
                /\ Len(stack) <= Cardinality(ImplementationTypes) + 2
                /\ thread[t].ctl.kind \in {"return", "throw"} /\ AtTopLevel(t) => Outcome(t) )
  /\ ( thread[1].ctl.kind # "idle" ) ~> Outcome(1)

\* Start -> Middle -> End -> Start: the stack at its greatest depth, the root
\* frame, the three implementation types and the repeated one.
C16_Witness ==
  /\ prog = "CircularDependency"
  /\ Cardinality(ImplementationTypes) = 3
  /\ Len(thread[1].context.componentStack_) = 5
  /\ thread[1].ctl.kind = "throw"

\* Is implementation type U reachable from T along constructor arguments and
\* the bindings a lookup from container c selects, in at most n steps?
RECURSIVE Needs(_, _, _, _)
Needs(c, T, U, n) ==
  /\ n > 0
  /\ has_constructor_injection(T)
  /\ \E i \in DOMAIN ConstructorTypedef[T] :
       LET r == Nearest(registrations_, c, ConstructorTypedef[T][i])
       IN  /\ r.container # NoContainer
           /\ \/ Storage(r).impl = U
              \/ Needs(c, Storage(r).impl, U, n - 1)

\* C17: a step raises CircularDependencyFound only for an activation whose
\* implementation type is in a frame below it on the stack, and names that
\* type; a call whose CircularDependencyFound has reached the top level
\* requested an implementation that needs itself.  So no call of the acyclic
\* program (a dependency reached along two paths, a constructor that takes
\* one dependency twice) ever fails with it.
C17_NoFalseCycle ==
  [][ \A t \in Threads :
        /\ ( thread'[t].ctl.exception.class = "CircularDependencyFound"
             /\ thread[t].ctl.exception.class # "CircularDependencyFound" ) =>
               /\ thread[t].ctl.kind = "run"
               /\ thread'[t].frames = thread[t].frames
               /\ \E k \in 1..(Len(thread[t].frames) - 1) :
                    thread[t].frames[k].impl = Top(t).impl
               /\ thread'[t].ctl.exception.what = type_name(Top(t).impl)
        /\ thread'[t].ctl.exception.class = "CircularDependencyFound" =>
             /\ prog # "Shared"
             /\ \E U \in TypeSet :
                  Needs(thread'[t].request.container, U, U, Cardinality(TypeSet))
    ]_vars

\* get<Top>() returned: Top(Left, Base) and Left(Base) reached Base along two
\* paths, each building its own transient Base.
C17_Witness ==
  /\ prog = "Shared"
  /\ thread[1].ctl.kind = "return"
  /\ thread[1].request.type = "Top"
  /\ heap[thread[1].ctl.value].impl = "Top"
  /\ heap[heap[thread[1].ctl.value].args[1]].args[1] # heap[thread[1].ctl.value].args[2]
  /\ heap[heap[thread[1].ctl.value].args[2]].impl = "Base"

\* The binding the top-level lookup of thread t's call selects.
Selected(t) == Nearest(registrations_, thread[t].request.container, thread[t].request.type)

\* C18: while a call is failing, the singleton bindings whose constructions
\* it is abandoning have an empty cache, and when the failure has reached the
\* top level the singleton binding the call had selected is unpopulated, as
\* if never resolved: a later get finds the cache empty and constructs.
C18_FailedSingletonUnpopulated ==
  \A t \in Busy :
    thread[t].ctl.kind = "throw" =>
      /\ \A k \in DOMAIN thread[t].frames :
           thread[t].frames[k].cache =>
             /\ Storage(thread[t].frames[k].retriever).mInstance = nullptr
             /\ Storage(thread[t].frames[k].retriever).stores = 0
      /\ ( AtTopLevel(t) /\ Selected(t).container # NoContainer
           /\ Storage(Selected(t)).mIsSingleton ) =>
             /\ Storage(Selected(t)).mInstance = nullptr
             /\ Storage(Selected(t)).stores = 0
             /\ ~ getInstance_cached(Storage(Selected(t)))

\* get<Spider>() on the singleton binding of Spider has failed with
\* ComponentNotFoundException for INest: the binding is unpopulated.
C18_Witness ==
  /\ prog = "NestedDependencies"
  /\ AtTopLevel(1)
  /\ Throwing(1, "ComponentNotFoundException", "5INest")
  /\ thread[1].request.type = "Spider"
  /\ Storage(Selected(1)).mIsSingleton
  /\ Storage(Selected(1)).mInstance = nullptr

\* C19: the cached instance of a binding was built by that binding, so two
\* populated bindings never hold the same instance, whatever their
\* implementation types; a top-level get that selects a populated singleton
\* binding, from its own container or from a child that does not shadow it,
\* returns that binding's cached instance.
C19_ScopePerBinding ==
  /\ \A r \in Storages :
       Storage(r).mInstance # nullptr =>
         /\ Storage(r).mInstance.by = r
         /\ \A q \in Storages : q # r => Storage(q).mInstance # Storage(r).mInstance
  /\ \A t \in Busy :
       ( thread[t].ctl.kind = "return" /\ FreshSingleton(Selected(t)) ) =>
         /\ thread[t].ctl.value = Storage(Selected(t)).mInstance
         /\ thread[t].ctl.value.by = Selected(t)

\* INest is bound to SpiderNest in singleton scope in the child and in the
\* parent: each binding has cached its own SpiderNest, a caller holds the
\* child's, and parent.get<INest>() returns the parent's.
C19_Witness ==
  /\ prog = "ChildContainer"
  /\ registrations_["child"]["INest"] # << >>
  /\ registrations_["root"]["INest"] # << >>
  /\ FreshSingleton(Retriever("child", "INest", 1))
  /\ FreshSingleton(Retriever("root", "INest", 1))
  /\ registrations_["child"]["INest"][1].impl = registrations_["root"]["INest"][1].impl
  /\ registrations_["child"]["INest"][1].mInstance \in BagToSet(handles)
  /\ thread[1].ctl.kind = "return"
  /\ thread[1].request = [container |-> "root", type |-> "INest"]
  /\ thread[1].ctl.value = registrations_["root"]["INest"][1].mInstance
  /\ thread[1].ctl.value # registrations_["child"]["INest"][1].mInstance

\* C20: in every step a populated singleton binding keeps its cached
\* instance and that instance keeps the arguments it was constructed with;
\* a top-level get that selects such a binding returns the cached instance
\* at once, constructing nothing and resolving none of its dependencies,
\* from whichever container it is called.
C20_FirstWiringKept ==
  [][ /\ \A r \in Storages :
           ( FreshSingleton(r) /\ Storage(r).mInstance # nullptr ) =>
             /\ StorageOf(registrations_', r).mInstance = Storage(r).mInstance
             /\ Storage(r).mInstance \in DOMAIN heap'
             /\ heap'[Storage(r).mInstance] = heap[Storage(r).mInstance]
      /\ \A t \in Threads :
           ( thread[t].ctl.kind = "idle" /\ thread'[t].ctl.kind # "idle"
             /\ Nearest(registrations_, thread'[t].request.container,
                        thread'[t].request.type).container # NoContainer ) =>
             LET r == Nearest(registrations_, thread'[t].request.container,
                              thread'[t].request.type)
             IN  ( FreshSingleton(r) /\ Storage(r).mInstance # nullptr ) =>
                   /\ thread'[t].ctl = Return(Storage(r).mInstance)
                   /\ thread'[t].frames = << >>
                   /\ heap' = heap
    ]_vars

\* The parent's singleton Spider was first resolved through the child, which
\* shadows INest: parent.get<Spider>() returns the Spider wired with the
\* child's INest although the parent has an INest binding of its own.
C20_Witness ==
  /\ prog = "ChildContainer"
  /\ thread[1].ctl.kind = "return"
  /\ thread[1].request = [container |-> "root", type |-> "Spider"]
  /\ registrations_["root"]["INest"] # << >>
  /\ FreshSingleton(Retriever("root", "Spider", 1))
  /\ thread[1].ctl.value = registrations_["root"]["Spider"][1].mInstance
  /\ heap[thread[1].ctl.value].args[1].by = Retriever("child", "INest", 1)

====
